---- MODULE Spec2Model ----
(***************************************************************************)
(* The client-benchmark example of libdatachannel                          *)
(* (examples/client-benchmark/main.cpp) as a state machine.                *)
(*                                                                         *)
(* Contexts that take steps:                                               *)
(*   - the main sequence (main), from wsFuture.get() to its return;        *)
(*   - the signaling transport: onOpen, onError, and the onMessage handler *)
(*     (the router), one message at a time;                                *)
(*   - per data channel, the handler that runs the initial send burst      *)
(*     (dc->onOpen of the offerer, pc->onDataChannel of the answerer) and  *)
(*     the onBufferedAmountLow handler that runs the resumed bursts;       *)
(*   - the peer engine: it opens, drains and closes channels and delivers  *)
(*     inbound data messages.                                              *)
(* The callbacks run concurrently with each other and with main, so every  *)
(* loop iteration is two steps: the read of the loop condition, and the     *)
(* send with the counter increment that follows it.                        *)
(***************************************************************************)
EXTENDS Integers, Sequences, FiniteSets, TLC

\* ---------------------------------------------------------------- bounds
MaxMsgs == 2       \* signaling payloads delivered to ws->onMessage
MaxPeerMsgs == 1   \* the same, where the data channels are explored
MaxSends == 2      \* successful dc->send calls, all channels together
MaxRecv == 2       \* inbound data-channel messages
MaxTicks == 1      \* iterations of the stats loop that are explored

\* ------------------------------------------------------- program constants
messageSize == 65535
INT32_MAX == 2147483647

localId == "L"
RemoteIds == {"A", "B"}
\* what `cin >> id` can leave in id
Inputs == {"", localId} \cup RemoteIds

Types == {"offer", "answer", "candidate"}
\* A payload handed to ws->onMessage. form: "binary" is the non-string
\* alternative, "noid"/"notype" are JSON texts without that key, "envelope"
\* has both. wf: the fields its type needs are there (description for offer
\* and answer, candidate and mid for candidate).
Payloads ==
    [form : {"binary", "noid", "notype"}, id : {"A"}, type : {"offer"}, wf : {TRUE}]
    \cup [form : {"envelope"}, id : RemoteIds, type : Types, wf : BOOLEAN]

\* rtMsg between two invocations of ws->onMessage
NoPayload == [form |-> "none", id |-> "A", type |-> "offer", wf |-> TRUE]

VARIABLES
    mainPc,             \* position of main
    exitCode,           \* the value main returned (read when mainPc = "exited")
    exitPath,           \* which return statement ended main
    id,                 \* main's local `id` (line 151)
    mpc,                \* main's local `pc` (line 165), an index of pcs
    duration,           \* main's local `duration` (line 212)
    i,                  \* the stats loop's `i` (line 217)
    wsState,            \* the signaling transport
    wsPromise,          \* "unset", "value" or "exception"
    pcs,                \* every PeerConnection constructed, in order
    peerConnectionMap,  \* id -> index of pcs, 0 when the key is absent
    dataChannelMap,     \* id -> index of dcs, 0 when the key is absent
    rtPc,               \* position of the onMessage handler
    rtMsg,              \* the payload it is handling (NoPayload when idle)
    rtRef,              \* its local `pc` (line 119), an index of pcs
    rtOutcome,          \* how the last payload ended
    msgsRouted,         \* payloads delivered so far
    dcs,                \* every DataChannel, with its handlers' positions
    sentSize,           \* atomic<size_t> sentSize
    receivedSize,       \* atomic<size_t> receivedSize
    sentTotal,          \* sum of all increments of sentSize
    recvTotal,          \* sum of all increments of receivedSize
    reportedSent,       \* sum of the values of sentSize the reporter printed
    reportedRecv,       \* sum of the values of receivedSize it printed
    shownRecv,          \* the "Received: ... KB/s" figure of the last tick
    shownSent,          \* the "Sent: ... KB/s" figure of the last tick
    failedSends,        \* sends that raised
    nRecv               \* inbound data-channel messages so far

vars == <<mainPc, exitCode, exitPath, id, mpc, duration, i, wsState, wsPromise,
          pcs, peerConnectionMap, dataChannelMap,
          rtPc, rtMsg, rtRef, rtOutcome, msgsRouted, dcs,
          sentSize, receivedSize, sentTotal, recvTotal,
          reportedSent, reportedRecv, shownRecv, shownSent, failedSends, nRecv>>

mainVars == <<mainPc, exitCode, exitPath, id, mpc, duration, i>>
wsVars == <<wsState, wsPromise>>
routerVars == <<rtPc, rtMsg, rtRef, rtOutcome, msgsRouted>>
counterVars == <<sentSize, receivedSize, sentTotal, recvTotal,
                 reportedSent, reportedRecv, shownRecv, shownSent>>

\* ---------------------------------------------------------------- helpers
AllIds == RemoteIds \cup {localId}
EmptyMap == [k \in AllIds |-> 0]

\* unordered_map::emplace: inserts only when the key is absent
Emplace(map, key, val) ==
    IF map[key] = 0 THEN [map EXCEPT ![key] = val] ELSE map

Running == mainPc # "exited"

\* the engine has a remote description for connection k
RemoteSet(k) == pcs[k].descs > 0

TotalSends == sentTotal \div messageSize


\* ------------------------------------------------------------------ Init
\* Lines 61-148 have run: the handlers are wired, ws->open(url) is called and
\* main is about to block in wsFuture.get().
Init ==
    /\ mainPc = "wait"
    /\ exitCode = 0
    /\ exitPath = "none"
    /\ id = ""
    /\ mpc = 0
    /\ duration = 0
    /\ i = 0
    /\ wsState = "connecting"
    /\ wsPromise = "unset"
    /\ pcs = << >>
    /\ peerConnectionMap = EmptyMap
    /\ dataChannelMap = EmptyMap
    /\ rtPc = "idle"
    /\ rtMsg = NoPayload
    /\ rtRef = 0
    /\ rtOutcome = "none"
    /\ msgsRouted = 0
    /\ dcs = << >>
    /\ sentSize = 0
    /\ receivedSize = 0
    /\ sentTotal = 0
    /\ recvTotal = 0
    /\ reportedSent = 0
    /\ reportedRecv = 0
    /\ shownRecv = 0
    /\ shownSent = 0
    /\ failedSends = 0
    /\ nRecv = 0

\* ---------------------------------------------------- signaling transport
\* ws->onOpen (lines 91-94): wsPromise.set_value()
WsOnOpen ==
    /\ Running
    /\ wsState = "connecting"
    /\ wsState' = "open"
    /\ wsPromise' = IF wsPromise = "unset" THEN "value" ELSE wsPromise
    /\ UNCHANGED <<mainVars, pcs, peerConnectionMap, dataChannelMap, routerVars, dcs, counterVars, failedSends, nRecv>>

\* ws->onError (lines 96-99): wsPromise.set_exception(...). A promise that is
\* already satisfied keeps its state (set_exception raises inside the callback).
WsOnError ==
    /\ Running
    /\ wsState \in {"connecting", "open"}
    /\ wsState' = "error"
    /\ wsPromise' = IF wsPromise = "unset" THEN "exception" ELSE wsPromise
    /\ UNCHANGED <<mainVars, pcs, peerConnectionMap, dataChannelMap, routerVars, dcs, counterVars, failedSends, nRecv>>

\* ---------------------------------------------------------------- router
\* createPeerConnection (lines 249-321) for the caller `role`: constructs the
\* connection, wires its callbacks and emplaces it; yields the new pcs and map.
\* wf is kept with the connection: whether the payload that made the router
\* create it was well formed (TRUE for main).
\* descs, cands: the setRemoteDescription and addRemoteCandidate calls made on it.
\* cb: one of its callbacks has been invoked.
NewPeerConnection(ident, role, wf) ==
    [id |-> ident, role |-> role, wf |-> wf, descs |-> 0, cands |-> 0, cb |-> FALSE]

createPeerConnection(ident, role, wf) ==
    /\ pcs' = Append(pcs, NewPeerConnection(ident, role, wf))
    /\ peerConnectionMap' = Emplace(peerConnectionMap, ident, Len(pcs) + 1)

\* what lines 119-127 decide for an envelope: "found", "create" or "drop"
\* (RouteDecision; the two before it are the decision without the type test
\* of line 122, and with the test of line 122 before the lookup of line 120)
RouteDecisionCreateForAnyType(m) ==
    IF peerConnectionMap[m.id] # 0 THEN "found" ELSE "create"

RouteDecisionCreateForEveryOffer(m) ==
    IF m.type = "offer" THEN "create"
    ELSE IF peerConnectionMap[m.id] # 0 THEN "found" ELSE "drop"

RouteDecision(m) ==
    IF peerConnectionMap[m.id] # 0 THEN "found"
    ELSE IF m.type = "offer" THEN "create"
    ELSE "drop"

\* lines 103-127: take a payload, parse it, look the id up
RouteLookup(m, max) ==
    /\ Running
    /\ wsState = "open"
    /\ rtPc = "idle"
    /\ msgsRouted < max
    /\ msgsRouted' = msgsRouted + 1
    /\ IF m.form # "envelope"
       THEN /\ rtPc' = "idle"
            /\ rtMsg' = NoPayload
            /\ rtOutcome' = "ignored"
            /\ rtRef' = 0
       ELSE LET d == RouteDecision(m) IN
            /\ rtPc' = CASE d = "found" -> "dispatch"
                         [] d = "create" -> "create"
                         [] OTHER -> "idle"
            /\ rtMsg' = IF d = "drop" THEN NoPayload ELSE m
            /\ rtOutcome' = IF d = "drop" THEN "dropped" ELSE "pending"
            /\ rtRef' = IF d = "found" THEN peerConnectionMap[m.id] ELSE 0
    /\ UNCHANGED <<mainVars, wsVars, pcs, peerConnectionMap, dataChannelMap,
                   dcs, counterVars, failedSends, nRecv>>

\* line 124: pc = createPeerConnection(config, ws, id)
RouteCreate ==
    /\ Running
    /\ rtPc = "create"
    /\ createPeerConnection(rtMsg.id, "answerer", rtMsg.wf)
    /\ rtRef' = Len(pcs) + 1
    /\ rtPc' = "dispatch"
    /\ UNCHANGED <<mainVars, wsVars, dataChannelMap, rtMsg, rtOutcome,
                   msgsRouted, dcs, counterVars, failedSends, nRecv>>

\* lines 129-136 for a payload with the fields its type needs
RouteDispatch ==
    /\ Running
    /\ rtPc = "dispatch"
    /\ rtMsg.wf
    /\ pcs' = [pcs EXCEPT ![rtRef] =
                 IF rtMsg.type = "candidate"
                 THEN [@ EXCEPT !.cands = @ + 1]
                 ELSE [@ EXCEPT !.descs = @ + 1]]
    /\ rtPc' = "idle"
    /\ rtMsg' = NoPayload
    /\ rtRef' = 0
    /\ rtOutcome' = "dispatched"
    /\ UNCHANGED <<mainVars, wsVars, peerConnectionMap, dataChannelMap,
                   msgsRouted, dcs, counterVars, failedSends, nRecv>>

\* lines 129-136 for a payload without them: message["description"] (or
\* "candidate", "mid") is null and get<string>() raises out of the handler.
\* The transport's callback wrapper ends that invocation and goes on with the
\* next payload.
RouteThrow ==
    /\ Running
    /\ rtPc = "dispatch"
    /\ ~rtMsg.wf
    /\ rtPc' = "idle"
    /\ rtMsg' = NoPayload
    /\ rtRef' = 0
    /\ rtOutcome' = "threw"
    /\ UNCHANGED <<mainVars, wsVars, pcs, peerConnectionMap, dataChannelMap,
                   msgsRouted, dcs, counterVars, failedSends, nRecv>>


\* ------------------------------------------------------------------ main
\* how wsFuture.get() (line 149) returns: "input" when the promise holds a
\* value, "catchDC" (the handler of the function-try-block) when it rethrows
WaitResultIgnoringError(promise) == "input"

WaitResult(promise) == IF promise = "value" THEN "input" ELSE "catchDC"

MainWait ==
    /\ mainPc = "wait"
    /\ wsPromise # "unset"
    /\ mainPc' = WaitResult(wsPromise)
    /\ UNCHANGED <<exitCode, exitPath, id, mpc, duration, i, wsVars, pcs,
                   peerConnectionMap, dataChannelMap, routerVars, dcs,
                   counterVars, failedSends, nRecv>>

\* lines 151-162: read the remote id; the two early returns
MainInput(in) ==
    /\ mainPc = "input"
    /\ id' = in
    /\ IF in = ""
       THEN mainPc' = "exited" /\ exitCode' = 0 /\ exitPath' = "empty"
       ELSE IF in = localId
       THEN mainPc' = "exited" /\ exitCode' = 0 /\ exitPath' = "self"
       ELSE mainPc' = "create" /\ UNCHANGED <<exitCode, exitPath>>
    /\ UNCHANGED <<mpc, duration, i, wsVars, pcs, peerConnectionMap,
                   dataChannelMap, routerVars, dcs, counterVars,
                   failedSends, nRecv>>

\* lines 164-165: auto pc = createPeerConnection(config, ws, id)
MainCreatePeerConnection ==
    /\ mainPc = "create"
    /\ createPeerConnection(id, "offerer", TRUE)
    /\ mpc' = Len(pcs) + 1
    /\ mainPc' = "channel"
    /\ UNCHANGED <<exitCode, exitPath, id, duration, i, wsVars, dataChannelMap,
                   routerVars, dcs, counterVars, failedSends, nRecv>>

\* a DataChannel as createDataChannel (line 170) or the engine (line 276)
\* hands it over. hInit, hLow: positions of the initial-burst handler and of
\* the onBufferedAmountLow handler; rdInit, rdLow: the buffered amount each
\* read in its loop condition; lowReg, msgReg: onBufferedAmountLow and
\* onMessage are set; lowPend: a low-buffer notification waits for delivery.
\* sends and blocked record the channel's history: its successful sends, and
\* whether the buffered amount became nonzero with no low-buffer notification
\* delivered since.
NewChannel(k, kind) ==
    [pc |-> k, kind |-> kind, open |-> (kind = "received"), buf |-> 0,
     lowReg |-> (kind = "created"), msgReg |-> (kind = "created"),
     lowPend |-> FALSE,
     hInit |-> IF kind = "received" THEN "check" ELSE "idle",
     hLow |-> "idle", rdInit |-> 0, rdLow |-> 0,
     sends |-> 0, blocked |-> FALSE]

\* params.durationInSec() > 0 ? params.durationInSec() : INT32_MAX (line 212)
Duration(durationInSec) ==
    IF durationInSec > 0 THEN durationInSec ELSE INT32_MAX

\* lines 168-215: createDataChannel, the four handlers, dataChannelMap.emplace,
\* the duration
MainCreateChannel(durationInSec) ==
    /\ mainPc = "channel"
    /\ dcs' = Append(dcs, NewChannel(mpc, "created"))
    /\ dataChannelMap' = Emplace(dataChannelMap, id, Len(dcs) + 1)
    /\ duration' = Duration(durationInSec)
    /\ i' = 1
    /\ mainPc' = "loop"
    /\ UNCHANGED <<exitCode, exitPath, id, mpc, wsVars, pcs, peerConnectionMap,
                   routerVars, counterVars, failedSends, nRecv>>

\* line 217: i <= duration, then the sleep of line 218
MainLoop ==
    /\ mainPc = "loop"
    /\ IF i <= duration
       THEN i <= MaxTicks /\ mainPc' = "loadR"
       ELSE mainPc' = "clearDC"
    /\ UNCHANGED <<exitCode, exitPath, id, mpc, duration, i, wsVars, pcs,
                   peerConnectionMap, dataChannelMap, routerVars, dcs,
                   counterVars, failedSends, nRecv>>

\* `... / 1024` of lines 219-220: size_t division, the quotient truncated
\* (KB; the one before it rounds to the nearest KB instead)
KBRounded(bytes) == (bytes + 512) \div 1024

KB(bytes) == bytes \div 1024

\* line 219: receivedSize.load() / 1024 is printed
MainLoadReceived ==
    /\ mainPc = "loadR"
    /\ reportedRecv' = reportedRecv + receivedSize
    /\ shownRecv' = KB(receivedSize)
    /\ mainPc' = "loadS"
    /\ UNCHANGED <<exitCode, exitPath, id, mpc, duration, i, wsVars, pcs,
                   peerConnectionMap, dataChannelMap, routerVars, dcs,
                   sentSize, receivedSize, sentTotal, recvTotal, reportedSent,
                   shownSent, failedSends, nRecv>>

\* line 220: sentSize.load() / 1024 is printed
MainLoadSent ==
    /\ mainPc = "loadS"
    /\ reportedSent' = reportedSent + sentSize
    /\ shownSent' = KB(sentSize)
    /\ mainPc' = "storeS"
    /\ UNCHANGED <<exitCode, exitPath, id, mpc, duration, i, wsVars, pcs,
                   peerConnectionMap, dataChannelMap, routerVars, dcs,
                   sentSize, receivedSize, sentTotal, recvTotal, reportedRecv,
                   shownRecv, failedSends, nRecv>>

\* line 222, receivedSize = sentSize = 0: the inner assignment first
MainStoreSent ==
    /\ mainPc = "storeS"
    /\ sentSize' = 0
    /\ mainPc' = "storeR"
    /\ UNCHANGED <<exitCode, exitPath, id, mpc, duration, i, wsVars, pcs,
                   peerConnectionMap, dataChannelMap, routerVars, dcs,
                   receivedSize, sentTotal, recvTotal, reportedSent,
                   reportedRecv, shownRecv, shownSent, failedSends, nRecv>>

\* line 222, the outer assignment, then lines 223-233 and ++i
MainStoreReceived ==
    /\ mainPc = "storeR"
    /\ receivedSize' = 0
    /\ i' = i + 1
    /\ mainPc' = "loop"
    /\ UNCHANGED <<exitCode, exitPath, id, mpc, duration, wsVars, pcs,
                   peerConnectionMap, dataChannelMap, routerVars, dcs,
                   sentSize, sentTotal, recvTotal, reportedSent, reportedRecv,
                   shownRecv, shownSent, failedSends, nRecv>>

\* line 237 and line 243: dataChannelMap.clear()
MainClearChannels ==
    /\ mainPc \in {"clearDC", "catchDC"}
    /\ dataChannelMap' = EmptyMap
    /\ mainPc' = IF mainPc = "clearDC" THEN "clearPC" ELSE "catchPC"
    /\ UNCHANGED <<exitCode, exitPath, id, mpc, duration, i, wsVars, pcs,
                   peerConnectionMap, routerVars, dcs, counterVars,
                   failedSends, nRecv>>

\* lines 238-239 and lines 244-245: peerConnectionMap.clear(), then the return
MainClearConnections ==
    /\ mainPc \in {"clearPC", "catchPC"}
    /\ peerConnectionMap' = EmptyMap
    /\ exitCode' = IF mainPc = "clearPC" THEN 0 ELSE -1
    /\ exitPath' = IF mainPc = "clearPC" THEN "done" ELSE "error"
    /\ mainPc' = "exited"
    /\ UNCHANGED <<id, mpc, duration, i, wsVars, pcs, dataChannelMap, routerVars, dcs, counterVars, failedSends, nRecv>>


\* ------------------------------------------------------- benchmark engine
Channels == 1..Len(dcs)
Handlers == {"hInit", "hLow"}
Rd(h) == IF h = "hInit" THEN "rdInit" ELSE "rdLow"

\* while (dc->bufferedAmount() == 0): lines 177 and 285
InitialLoopCondNoBackpressure(c) == TRUE

InitialLoopCond(c) == dcs[c].buf = 0

\* while (dcLocked->isOpen() && dcLocked->bufferedAmount() == 0): lines 194, 300
\* (ResumeLoopCond; the one before it is the loop without the second test)
ResumeLoopCondOpenOnly(c) == dcs[c].open

ResumeLoopCond(c) == dcs[c].open /\ dcs[c].buf = 0

LoopCond(c, h) == IF h = "hInit" THEN InitialLoopCond(c) ELSE ResumeLoopCond(c)

\* where a handler goes on when its loop ends: dc->onOpen (line 185) and the
\* low-buffer handlers (lines 201, 307) return, pc->onDataChannel goes on to
\* line 293
LoopExit(c, h) ==
    IF h = "hLow" THEN "idle"
    ELSE IF dcs[c].kind = "received" THEN "wire" ELSE "done"

\* the loop condition is read
BurstCheck(c, h) ==
    /\ Running
    /\ dcs[c][h] = "check"
    /\ dcs' = [dcs EXCEPT ![c] =
                 IF LoopCond(c, h)
                 THEN [@ EXCEPT ![h] = "send", ![Rd(h)] = dcs[c].buf]
                 ELSE [@ EXCEPT ![h] = LoopExit(c, h), ![Rd(h)] = 0]]
    /\ UNCHANGED <<mainVars, wsVars, pcs, peerConnectionMap, dataChannelMap,
                   routerVars, counterVars, failedSends, nRecv>>

\* dc->send(messageData) returns, then sentSize += messageData.size()
\* (lines 178-179, 195-196, 286-287, 301-302). grow: the engine keeps the
\* message buffered; otherwise it went out at once.
BurstSend(c, h, grow) ==
    /\ Running
    /\ dcs[c][h] = "send"
    /\ dcs[c].open
    /\ TotalSends < MaxSends
    /\ grow \/ dcs[c].buf = 0
    /\ dcs' = [dcs EXCEPT ![c] =
                 [@ EXCEPT ![h] = "check",
                           !.buf = IF grow THEN @ + messageSize ELSE @,
                           !.sends = @ + 1,
                           !.blocked = @ \/ grow]]
    /\ sentSize' = sentSize + messageSize
    /\ sentTotal' = sentTotal + messageSize
    /\ UNCHANGED <<mainVars, wsVars, pcs, peerConnectionMap, dataChannelMap,
                   routerVars, receivedSize, recvTotal, reportedSent,
                   reportedRecv, shownRecv, shownSent, failedSends, nRecv>>

\* where a handler goes on when dc->send raises: the catch clauses of lines
\* 181-183, 198-200, 289-291, 304-306 are outside the loop
AfterSendErrorRetry(c, h) == "check"

AfterSendError(c, h) == LoopExit(c, h)

\* dc->send(messageData) raises: always on a closed channel, and on an open
\* one when the transport fails
BurstSendFails(c, h) ==
    /\ Running
    /\ dcs[c][h] = "send"
    /\ dcs' = [dcs EXCEPT ![c] =
                 [@ EXCEPT ![h] = AfterSendError(c, h), ![Rd(h)] = 0]]
    /\ failedSends' = failedSends + 1
    /\ UNCHANGED <<mainVars, wsVars, pcs, peerConnectionMap, dataChannelMap,
                   routerVars, counterVars, nRecv>>

\* lines 293-316 of pc->onDataChannel: onBufferedAmountLow, onClosed and
\* onMessage are set, then dataChannelMap.emplace(id, dc)
HandlerRegister(c) ==
    /\ Running
    /\ dcs[c].hInit = "wire"
    /\ dcs' = [dcs EXCEPT ![c] =
                 [@ EXCEPT !.hInit = "done", !.lowReg = TRUE, !.msgReg = TRUE]]
    /\ dataChannelMap' = Emplace(dataChannelMap, pcs[dcs[c].pc].id, c)
    /\ UNCHANGED <<mainVars, wsVars, pcs, peerConnectionMap, routerVars, counterVars, failedSends, nRecv>>

\* a shared_ptr to connection k is held: by peerConnectionMap, by main's `pc`
\* (line 165) or by the `pc` of the running onMessage handler (line 119);
\* a connection nobody holds is destroyed and invokes no callback
Owned(k) ==
    \/ peerConnectionMap[pcs[k].id] = k
    \/ mpc = k
    \/ rtRef = k

\* pc->onLocalDescription (lines 258-264) is invoked for the first time: the
\* engine has a local description once negotiation has started, on the
\* offerer after createDataChannel (line 170), on the answerer after
\* setRemoteDescription (line 132)
OnLocalDescription(k) ==
    /\ Running
    /\ Owned(k)
    /\ ~pcs[k].cb
    /\ IF pcs[k].role = "offerer"
       THEN \E c \in 1..Len(dcs) : dcs[c].pc = k /\ dcs[c].kind = "created"
       ELSE RemoteSet(k)
    /\ pcs' = [pcs EXCEPT ![k] = [@ EXCEPT !.cb = TRUE]]
    /\ UNCHANGED <<mainVars, wsVars, peerConnectionMap, dataChannelMap,
                   routerVars, dcs, counterVars, failedSends, nRecv>>

\* the engine hands a channel the remote peer created to pc->onDataChannel
\* (line 276); the handler starts with its burst. The remote peer runs this
\* program: it creates a channel when it is the offerer (line 170).
OnDataChannel(k) ==
    /\ Running
    /\ Owned(k)
    /\ pcs[k].role = "answerer"
    /\ RemoteSet(k)
    /\ \A c \in Channels : ~(dcs[c].pc = k /\ dcs[c].kind = "received")
    /\ dcs' = Append(dcs, NewChannel(k, "received"))
    /\ UNCHANGED <<mainVars, wsVars, pcs, peerConnectionMap, dataChannelMap,
                   routerVars, counterVars, failedSends, nRecv>>

\* the channel main created opens: dc->onOpen (line 172) starts
ChannelOpen(c) ==
    /\ Running
    /\ dcs[c].kind = "created"
    /\ dcs[c].hInit = "idle"
    /\ ~dcs[c].open
    /\ RemoteSet(dcs[c].pc)
    /\ dcs' = [dcs EXCEPT ![c] =
                 [@ EXCEPT !.open = TRUE, !.hInit = "check"]]
    /\ UNCHANGED <<mainVars, wsVars, pcs, peerConnectionMap, dataChannelMap,
                   routerVars, counterVars, failedSends, nRecv>>

\* the channel closes
ChannelClose(c) ==
    /\ Running
    /\ dcs[c].open
    /\ dcs' = [dcs EXCEPT ![c] = [@ EXCEPT !.open = FALSE]]
    /\ UNCHANGED <<mainVars, wsVars, pcs, peerConnectionMap, dataChannelMap,
                   routerVars, counterVars, failedSends, nRecv>>

\* the engine puts one buffered message on the wire; when the buffered amount
\* reaches the low-water mark (0) the channel's low-buffer notification is
\* raised, for the handler that is set at that moment
Drain(c) ==
    /\ Running
    /\ dcs[c].buf > 0
    /\ dcs' = [dcs EXCEPT ![c] =
                 [@ EXCEPT !.buf = @ - messageSize,
                           !.lowPend = @ \/ (dcs[c].buf = messageSize /\ dcs[c].lowReg)]]
    /\ UNCHANGED <<mainVars, wsVars, pcs, peerConnectionMap, dataChannelMap,
                   routerVars, counterVars, failedSends, nRecv>>

\* wdc.lock() (lines 188, 294) succeeds: something still owns the channel.
\* main's `dc` owns the created one; a received one is owned by the running
\* pc->onDataChannel invocation and then by dataChannelMap.
Locked(c) ==
    \/ dcs[c].kind = "created"
    \/ dcs[c].hInit # "done"
    \/ dataChannelMap[pcs[dcs[c].pc].id] = c

\* the low-buffer notification is delivered: the onBufferedAmountLow handler
\* (lines 187-201, 293-307) starts, never concurrently with itself
LowFire(c) ==
    /\ Running
    /\ dcs[c].lowPend
    /\ dcs[c].hLow = "idle"
    /\ dcs' = [dcs EXCEPT ![c] =
                 [@ EXCEPT !.lowPend = FALSE,
                           !.blocked = FALSE,
                           !.hLow = IF Locked(c) THEN "check" ELSE "idle"]]
    /\ UNCHANGED <<mainVars, wsVars, pcs, peerConnectionMap, dataChannelMap,
                   routerVars, counterVars, failedSends, nRecv>>

\* dc->onMessage (lines 205-208, 311-314): a binary payload of messageSize
\* bytes is counted, a text payload is not
DataMessage(c, binary) ==
    /\ Running
    /\ dcs[c].open
    /\ dcs[c].msgReg
    /\ nRecv < MaxRecv
    /\ nRecv' = nRecv + 1
    /\ receivedSize' = IF binary THEN receivedSize + messageSize ELSE receivedSize
    /\ recvTotal' = IF binary THEN recvTotal + messageSize ELSE recvTotal
    /\ UNCHANGED <<mainVars, wsVars, pcs, peerConnectionMap, dataChannelMap,
                   routerVars, dcs, sentSize, sentTotal, reportedSent,
                   reportedRecv, shownRecv, shownSent, failedSends>>

\* ------------------------------------------------------ registry writers
\* The contexts whose next step writes peerConnectionMap: the router at line
\* 124 (emplace of line 319), main at line 165 (the same emplace) and at the
\* clear of lines 238 and 244. No statement of the file takes a lock.
PcMapWriters ==
    (IF rtPc = "create" THEN {"router"} ELSE {})
    \cup (IF mainPc \in {"create", "clearPC", "catchPC"} THEN {"main"} ELSE {})

\* The contexts whose next step writes dataChannelMap: main at line 210
\* (emplace) and at the clear of lines 237 and 243, and every pc->onDataChannel
\* invocation that is at line 316 (emplace).
DcMapWriters ==
    (IF mainPc \in {"channel", "clearDC", "catchDC"} THEN {"main"} ELSE {})
    \cup {c \in Channels : dcs[c].hInit = "wire"}

\* ------------------------------------------------------------------ Next
\* the steps of the main sequence, for durations (params.durationInSec()) in D
MainStep(D) ==
    \/ MainWait
    \/ \E in \in Inputs : MainInput(in)
    \/ MainCreatePeerConnection
    \/ \E d \in D : MainCreateChannel(d)
    \/ MainLoop
    \/ MainLoadReceived
    \/ MainLoadSent
    \/ MainStoreSent
    \/ MainStoreReceived
    \/ MainClearChannels
    \/ MainClearConnections

\* the steps of ws->onMessage for at most max payloads from P
RouterStep(P, max) ==
    \/ \E m \in P : RouteLookup(m, max)
    \/ RouteCreate
    \/ RouteDispatch

\* the steps of the callbacks that start and run send bursts
BurstStep ==
    \/ \E k \in 1..Len(pcs) : OnDataChannel(k)
    \/ \E c \in Channels : ChannelOpen(c)
    \/ \E c \in Channels : HandlerRegister(c)
    \/ \E c \in Channels, h \in Handlers : BurstCheck(c, h)
    \/ \E c \in Channels, h \in Handlers, grow \in BOOLEAN : BurstSend(c, h, grow)

\* what the peer engine does to a channel, and the resumed bursts
EngineStep ==
    \/ \E c \in Channels : Drain(c)
    \/ \E c \in Channels : LowFire(c)
    \/ \E c \in Channels : ChannelClose(c)
    \/ \E c \in Channels, h \in Handlers : BurstSendFails(c, h)

\* neither handler of channel c is inside a send loop
Quiet(c) == dcs[c].hInit \notin {"check", "send"} /\ dcs[c].hLow = "idle"

\* the engine drains a channel between two bursts
QuietDrain(c) == Quiet(c) /\ Drain(c)

\* inbound data
DataStep == \E c \in Channels, binary \in BOOLEAN : DataMessage(c, binary)

Next ==
    \/ MainStep(0..MaxTicks)
    \/ WsOnOpen
    \/ WsOnError
    \/ RouterStep(Payloads, MaxMsgs)
    \/ RouteThrow
    \/ BurstStep
    \/ EngineStep
    \/ DataStep
    \/ \E k \in 1..Len(pcs) : OnLocalDescription(k)

Spec == Init /\ [][Next]_vars

\* The program while the peer engine opens no data channel: every payload,
\* every input, every path of main. The channel steps left out change none of
\* pcs, peerConnectionMap and the router's and main's variables.
NextSignaling ==
    \/ MainStep(0..MaxTicks)
    \/ WsOnOpen
    \/ WsOnError
    \/ RouterStep(Payloads, MaxMsgs)
    \/ RouteThrow

SpecSignaling == Init /\ [][NextSignaling]_vars

\* The same with the engine's first callback of each session.
NextCallbacks ==
    \/ NextSignaling
    \/ \E k \in 1..Len(pcs) : OnLocalDescription(k)

SpecCallbacks == Init /\ [][NextCallbacks]_vars

\* the well-formed offers and answers of the remote peer "A"
PeerPayloads ==
    {m \in Payloads : m.form = "envelope" /\ m.id = "A" /\ m.wf
                      /\ m.type \in {"offer", "answer"}}

\* The send bursts: a remote peer "A" that negotiates with well-formed
\* envelopes over a signaling transport that stays up, a benchmark of one
\* second, and an engine that buffers, drains, fails and closes at will.
NextBurst ==
    \/ MainStep({1})
    \/ WsOnOpen
    \/ RouterStep(PeerPayloads, MaxPeerMsgs)
    \/ BurstStep
    \/ EngineStep

SpecBurst == Init /\ [][NextBurst]_vars

\* The counters: the same peer, every duration, sends and inbound data
\* concurrent with the reporter; the engine neither drains nor fails.
NextStats ==
    \/ MainStep(0..MaxTicks)
    \/ WsOnOpen
    \/ RouterStep(PeerPayloads, MaxPeerMsgs)
    \/ BurstStep
    \/ DataStep

\* One burst at a time: the same peer, a transport that never fails and
\* channels that stay open, while the engine drains a channel only between
\* two bursts, so that no drain is concurrent with a send loop.
NextOrderly ==
    \/ MainStep({1})
    \/ WsOnOpen
    \/ RouterStep(PeerPayloads, MaxPeerMsgs)
    \/ BurstStep
    \/ \E c \in Channels : QuietDrain(c)
    \/ \E c \in Channels : LowFire(c)

SpecOrderly == Init /\ [][NextOrderly]_vars

SpecStats == Init /\ [][NextStats]_vars

\* Inbound data alone: the same peer and every duration, while the outbound
\* direction is down (every dc->send raises), so that the windows hold
\* nothing but what dc->onMessage counted.
NextReceive ==
    \/ MainStep(0..MaxTicks)
    \/ WsOnOpen
    \/ RouterStep(PeerPayloads, MaxPeerMsgs)
    \/ \E k \in 1..Len(pcs) : OnDataChannel(k)
    \/ \E c \in Channels : ChannelOpen(c)
    \/ \E c \in Channels : HandlerRegister(c)
    \/ \E c \in Channels, h \in Handlers : BurstCheck(c, h)
    \/ \E c \in Channels, h \in Handlers : BurstSendFails(c, h)
    \/ DataStep

SpecReceive == Init /\ [][NextReceive]_vars


\* ================================================================ claims
\* ---- the signaling router and the main sequence (SpecSignaling)

\* C3: routing a well-formed `candidate` or `answer` envelope whose id is not
\* in the registry is a no-op: the handler returns in the step that looked the
\* id up, both mappings and the set of sessions are unchanged, and no session
\* got a setRemoteDescription or addRemoteCandidate call.
C3_UnknownIdIsNoOp ==
    [][\A m \in Payloads :
          ( /\ m.form = "envelope"
            /\ m.wf
            /\ m.type \in {"answer", "candidate"}
            /\ peerConnectionMap[m.id] = 0
            /\ RouteLookup(m, MaxMsgs) )
          => ( /\ rtPc' = "idle"
               /\ rtOutcome' = "dropped"
               /\ pcs' = pcs
               /\ peerConnectionMap' = peerConnectionMap
               /\ dataChannelMap' = dataChannelMap )]_vars

\* C3, its case: an envelope was dropped for an unknown id while another id
\* has a session.
C3_Witness ==
    /\ rtOutcome = "dropped"
    /\ rtPc = "idle"
    /\ \E a, b \in RemoteIds : peerConnectionMap[a] # 0 /\ peerConnectionMap[b] = 0

\* the sessions the router created for id a
RouterCreated(a) ==
    {k \in 1..Len(pcs) : pcs[k].id = a /\ pcs[k].role = "answerer"}

\* C4: the router creates at most one session per id. When it creates one,
\* it had created none for that id before and the new one is an answerer; an
\* `offer` for an id in the registry goes to the session registered for it and
\* constructs nothing; no step changes the role of a session or the session
\* an id is registered with (the clear at exit apart).
C4_OneSessionPerId ==
    [][ /\ (rtPc = "create" /\ rtPc' = "dispatch")
           => ( /\ RouterCreated(rtMsg.id) = {}
                /\ Len(pcs') = Len(pcs) + 1
                /\ pcs'[Len(pcs')].role = "answerer"
                /\ pcs'[Len(pcs')].id = rtMsg.id
                /\ rtRef' = Len(pcs') )
        /\ \A m \in Payloads :
              ( /\ m.form = "envelope"
                /\ m.type = "offer"
                /\ peerConnectionMap[m.id] # 0
                /\ RouteLookup(m, MaxMsgs) )
              => ( /\ rtPc' = "dispatch"
                   /\ rtRef' = peerConnectionMap[m.id]
                   /\ pcs' = pcs
                   /\ peerConnectionMap' = peerConnectionMap )
        /\ \A k \in 1..Len(pcs) : pcs'[k].role = pcs[k].role
        /\ \A a \in RemoteIds :
              peerConnectionMap[a] # 0
              => peerConnectionMap'[a] \in {peerConnectionMap[a], 0}
      ]_vars

\* C4, its case: a second `offer` for the same id reached the one session the
\* router had created for it.
C4_Witness ==
    \E k \in 1..Len(pcs) :
        /\ pcs[k].role = "answerer"
        /\ pcs[k].descs >= 2
        /\ Cardinality(RouterCreated(pcs[k].id)) = 1

\* C5: when main has returned, both mappings are empty.
C5_RegistryEmptyAtExit ==
    mainPc = "exited"
    => (peerConnectionMap = EmptyMap /\ dataChannelMap = EmptyMap)

\* C6: a malformed envelope leaves nothing behind: the router goes on, main
\* has not returned because of it, and the registry holds only sessions that
\* well-formed processing put there, so that later envelopes are routed as if
\* the malformed one had never arrived.
C6_MalformedLeavesNoTrace ==
    /\ rtOutcome = "threw" => (rtPc = "idle" /\ exitPath \in {"none", "empty", "self", "done"})
    /\ \A a \in RemoteIds :
          (peerConnectionMap[a] # 0 /\ rtPc = "idle")
          => pcs[peerConnectionMap[a]].wf

\* C8: the connection main's createPeerConnection returned is not a second
\* one for its id: no connection for that id was constructed before it, and
\* until the clear it is the session the registry holds for that id.
C8_NoSecondSession ==
    mpc # 0
    => ( /\ \A k \in 1..(mpc - 1) : pcs[k].id # id
         /\ mainPc \in {"channel", "loop", "loadR", "loadS", "storeS", "storeR", "clearDC"}
            => peerConnectionMap[id] = mpc )

\* C9: when onError was first (the promise holds the exception), main never
\* reads the remote id and creates no session: it is waiting, in its handler
\* or returned, it can always take its next step, and it returns nonzero.
C9_ErrorBeforeOpen ==
    wsPromise = "exception"
    => ( /\ mainPc \in {"wait", "catchDC", "catchPC", "exited"}
         /\ id = ""
         /\ mpc = 0
         /\ \A k \in 1..Len(pcs) : pcs[k].role # "offerer"
         /\ mainPc # "exited"
            => ENABLED (MainWait \/ MainClearChannels \/ MainClearConnections)
         /\ mainPc = "exited" => (exitCode # 0 /\ exitPath = "error") )

\* C9, its case: onError came first and main has returned -1.
C9_Witness ==
    /\ wsPromise = "exception"
    /\ wsState = "error"
    /\ mainPc = "exited"
    /\ exitCode = -1

\* C10: when the remote id typed in is the local id, main returns nonzero
\* with both mappings empty.
C10_InvalidInputAborts ==
    (mainPc = "exited" /\ exitPath = "self")
    => ( /\ exitCode # 0
         /\ peerConnectionMap = EmptyMap
         /\ dataChannelMap = EmptyMap )

\* ---- the send bursts (SpecBurst)

\* C1 as stated: once a channel's buffered amount has become nonzero, no send
\* is issued on it before a low-buffer notification is delivered.
C1_NoSendBeforeNotification ==
    [][\A c \in Channels : dcs'[c].sends > dcs[c].sends => ~dcs[c].blocked]_vars

\* C1 as amended: every send is issued by a burst that read the channel's
\* buffered amount as zero in the loop condition just before it; a burst that
\* reads a nonzero amount ends there. (A burst that is running while the
\* engine drains the buffer reads zero and sends on, notification or not.)
C1_SendOnlyAfterZeroRead ==
    \A c \in Channels : \A h \in Handlers :
        dcs[c][h] = "send" => dcs[c][Rd(h)] = 0

\* C1, its case: the buffered amount became nonzero, no notification was
\* delivered since, and the initial burst is about to send again.
C1_Witness ==
    \E c \in Channels :
        /\ dcs[c].blocked
        /\ dcs[c].sends >= 1
        /\ dcs[c].hInit = "send"

\* C7: a send that raises ends its burst (the handler leaves the loop), adds
\* nothing to sentSize, and leaves sessions, channels, both mappings and main
\* where they were.
C7_SendErrorEndsBurst ==
    [][failedSends' > failedSends
       => ( /\ sentSize' = sentSize
            /\ sentTotal' = sentTotal
            /\ pcs' = pcs
            /\ peerConnectionMap' = peerConnectionMap
            /\ dataChannelMap' = dataChannelMap
            /\ Len(dcs') = Len(dcs)
            /\ mainPc' = mainPc
            /\ \E c \in Channels, h \in Handlers :
                  /\ dcs[c][h] = "send"
                  /\ dcs'[c][h] \notin {"check", "send"}
                  /\ dcs'[c].sends = dcs[c].sends )]_vars

\* C7, its case: a send raised after another had succeeded, and the session
\* and its channel are registered.
C7_Witness ==
    /\ failedSends > 0
    /\ sentTotal > 0
    /\ mainPc # "exited"
    /\ \E c \in Channels :
          /\ peerConnectionMap[pcs[dcs[c].pc].id] = dcs[c].pc
          /\ dataChannelMap[pcs[dcs[c].pc].id] = c

\* ---- the counters (SpecStats)

\* C2: whenever the reporter is between two ticks, every byte added to a
\* window counter has been printed by exactly one tick or is still in the
\* counter.
C2_CountersExact ==
    mainPc \notin {"loadR", "loadS", "storeS", "storeR"}
    => ( /\ reportedSent + sentSize = sentTotal
         /\ reportedRecv + receivedSize = recvTotal )

\* C11 as stated: when exactly two binary messages of 65535 bytes arrived and
\* both were in the window the first tick read, that tick shows 128 KB for
\* received and the counter is 0 after its reset.
C11_TwoMessagesShow128 ==
    ( /\ mainPc = "loop"
      /\ i = 2
      /\ recvTotal = 2 * messageSize
      /\ reportedRecv = 2 * messageSize )
    => (shownRecv = 128 /\ receivedSize = 0)

\* C11 as amended: between two ticks the figures shown are the truncated
\* quotients of what the tick read: after the first tick they are
\* floor(bytes read / 1024), and with two binary messages of 65535 bytes in
\* its window and no other arrival the received figure is 127 (131070 bytes
\* are 127 KB and 1022 bytes) and the counter is 0 after the reset.
C11_TwoMessagesShow127 ==
    (mainPc = "loop" /\ i = 2)
    => ( /\ shownRecv * 1024 <= reportedRecv
         /\ reportedRecv < (shownRecv + 1) * 1024
         /\ shownSent * 1024 <= reportedSent
         /\ reportedSent < (shownSent + 1) * 1024
         /\ (recvTotal = 2 * messageSize /\ reportedRecv = 2 * messageSize)
            => (shownRecv = 127 /\ receivedSize = 0) )

\* C11, its case: the first tick read a window with two binary messages and
\* has reset the counter.
C11_Witness ==
    /\ mainPc = "loop"
    /\ i = 2
    /\ nRecv = 2
    /\ recvTotal = 2 * messageSize
    /\ reportedRecv = 2 * messageSize
    /\ shownRecv = 127
    /\ receivedSize = 0

\* C12: main leaves the stats loop only when the configured ticks are done
\* (i = duration + 1), and when it has returned that way its status is 0 and
\* every session and channel is released (both mappings are empty).
C12_DurationEndsRun ==
    /\ mainPc \in {"clearDC", "clearPC"} => i = duration + 1
    /\ (mainPc = "exited" /\ exitPath = "done")
       => ( /\ i = duration + 1
            /\ exitCode = 0
            /\ peerConnectionMap = EmptyMap
            /\ dataChannelMap = EmptyMap )

\* C13: whenever a send call is made on a channel (dc->send returns or
\* raises), the channel's buffered amount is zero at that instant.
C13_BufferZeroAtSend ==
    [][\A c \in Channels : \A h \in Handlers :
          (dcs[c][h] = "send" /\ dcs'[c][h] # "send") => dcs[c].buf = 0]_vars

\* C14: whenever a send call is made on a channel, the channel is open at
\* that instant.
C14_OpenAtSend ==
    [][\A c \in Channels : \A h \in Handlers :
          (dcs[c][h] = "send" /\ dcs'[c][h] # "send") => dcs[c].open]_vars

\* ---- one burst at a time (SpecOrderly)

\* C15: in a send burst with no concurrent drain and no error, every send is
\* made with the buffered amount at zero (all sends before it left it there)
\* and adds exactly 65535 to sentSize; a loop condition read after the send
\* that made the amount nonzero ends the burst, so that send is the last one;
\* and a low-buffer notification delivered afterwards on the open channel
\* starts a new burst.
C15_BurstEndsAtFirstNonzero ==
    [][\A c \in Channels :
          /\ \A h \in Handlers :
                /\ (dcs[c][h] = "send" /\ dcs'[c][h] = "check")
                   => ( /\ dcs[c].buf = 0
                        /\ dcs'[c].sends = dcs[c].sends + 1
                        /\ sentSize' = sentSize + messageSize )
                /\ (dcs[c][h] = "check" /\ dcs'[c][h] # "check" /\ dcs[c].buf > 0)
                   => dcs'[c][h] = LoopExit(c, h)
          /\ (dcs[c].lowPend /\ ~dcs'[c].lowPend /\ dcs[c].open /\ Locked(c))
             => (dcs[c].buf = 0 /\ dcs'[c].hLow = "check")
      ]_vars

\* C15, its case: two sends were made on a channel and the burst ended with
\* the buffered amount nonzero; the engine has drained the channel and the
\* notification has started a resumed burst.
C15_Witness ==
    \E c \in Channels :
        /\ dcs[c].sends = 2
        /\ dcs[c].hInit = "done"
        /\ dcs[c].hLow = "check"
        /\ dcs[c].buf = 0
        /\ dcs[c].open
        /\ sentTotal = 2 * messageSize

\* ---- the registry

\* C16: mutations of the registry are serialized: at no time are two contexts
\* at a write of the same mapping (contexts that are, run their writes with
\* nothing ordering them).
C16_MutationsSerialized ==
    /\ Cardinality(PcMapWriters) <= 1
    /\ Cardinality(DcMapWriters) <= 1

\* C17: when a callback of a session is invoked for the first time, the
\* registry holds that session under its id.
C17_RegisteredBeforeCallback ==
    [][\A k \in 1..Len(pcs) :
          (OnLocalDescription(k) \/ OnDataChannel(k))
          => peerConnectionMap[pcs[k].id] = k]_vars

\* C18: a received channel that stays open is never left where no send can
\* follow a drain: its initial burst ended on a nonzero buffered amount, the
\* engine has drained the buffer to zero, and no low-buffer notification is
\* pending or being handled (none will be: the next one needs a send first).
C18_NoStallOnAnswerer ==
    \A c \in Channels :
        ~( /\ dcs[c].kind = "received"
           /\ dcs[c].open
           /\ dcs[c].hInit = "done"
           /\ dcs[c].hLow = "idle"
           /\ dcs[c].blocked
           /\ dcs[c].buf = 0
           /\ ~dcs[c].lowPend
           /\ failedSends = 0 )

\* C19: every id that is a key of dataChannelMap is a key of
\* peerConnectionMap.
C19_ChannelKeysAreSessionKeys ==
    \A a \in AllIds : dataChannelMap[a] # 0 => peerConnectionMap[a] # 0

\* C20: the step in which the router creates a session for a payload whose
\* processing then fails with a decode error (an `offer` without
\* `description`) changes neither the registry nor the set of sessions.
C20_DecodeErrorKeepsRegistry ==
    [][(rtPc = "create" /\ rtPc' = "dispatch" /\ ~rtMsg.wf)
       => (peerConnectionMap' = peerConnectionMap /\ pcs' = pcs)]_vars

====
